---- MODULE Spec2Model ----
(***************************************************************************)
(* Model of streamlit_app.py: the TMDb helper tmdb_get, the memoized       *)
(* keyword resolver search_keyword_id, the discovery query builder         *)
(* discover_movies, the memoized watch-provider lookup get_watch_providers *)
(* and the module-level script (keyword resolution loop, debug expander,   *)
(* button handler).                                                        *)
(*                                                                         *)
(* Python values are modelled as follows.  A str the code transforms       *)
(* (lower, join, formatting) is a sequence of one-character strings; a str *)
(* it only compares or passes along is a string.  A dict is a function     *)
(* whose DOMAIN is the set of keys present.  None and int results are      *)
(* tagged records (PyNone, PyInt); the values of a providers response,     *)
(* whose Python type decides whether .get exists, are tagged by that type. *)
(* The external service is an input: every call that reaches the network   *)
(* draws the service's behaviour from a bounded set of responses.          *)
(*                                                                         *)
(* SpecResolver, SpecDiscover, SpecProviderBody and SpecProviders explore  *)
(* calls of one function and record each call (lastSearch, lastDiscover,   *)
(* lastProv and the per-key counters).  SpecRun explores runs of the       *)
(* script; its steps change the two caches and the run's own state and     *)
(* leave those call records alone.                                         *)
(***************************************************************************)
EXTENDS Integers, Sequences, FiniteSets, TLC

VARIABLES
    TMDB_API_KEY,   \* the credential (line 11), fixed for the process; see Key
    kwCache,        \* lru_cache of search_keyword_id: <<[key, value]>>, oldest first
    kwCalled,       \* per keyword: calls of search_keyword_id made so far
    kwSent,         \* per keyword: requests sent to /search/keyword
    kwFailed,       \* per keyword: requests sent that ended in an exception
    lastSearch,     \* the last call of search_keyword_id and its outcome
    lastDiscover,   \* the last call of discover_movies and its outcome
    provCache,      \* lru_cache of get_watch_providers
    provCalled,     \* per (movie_id, region): calls of get_watch_providers
    provSent,       \* per (movie_id, region): requests sent to the providers endpoint
    provFirst,      \* per (movie_id, region): outcome of the first call
    lastProv,       \* the last call of get_watch_providers and its outcome
    pc,             \* position of the script run
    run,            \* the script run's locals and what it has rendered
    ops             \* calls made, or script runs started, so far (bounds the exploration)

resolverVars == <<kwCache, kwCalled, kwSent, kwFailed, lastSearch>>
discoverVars == <<lastDiscover>>
providerVars == <<provCache, provCalled, provSent, provFirst, lastProv>>
runVars == <<pc, run>>
vars == <<TMDB_API_KEY, resolverVars, discoverVars, providerVars, runVars, ops>>

----------------------------------------------------------------------------
(* Bounds of the exploration *)

MaxOps == 3          \* calls explored in one behaviour of a function-level specification
MaxCands == 2        \* candidates in one keyword-search response
MaxIds == 3          \* identifiers in one discover_movies call
MaxProvs == 3        \* providers listed in one region entry, over all categories
MaxRuns == 2         \* script runs (reruns) in one behaviour

----------------------------------------------------------------------------
(* Python values *)

EmptyDict == [x \in {} |-> x]
PyNone == [type |-> "None"]
PyInt(i) == [type |-> "int", v |-> i]

\* bool(x) for an int-or-None value: None and 0 are falsy
Truthy(x) == x.type = "int" /\ x.v # 0

\* d.get(key, default)
DictGet(d, key, default) == IF key \in DOMAIN d THEN d[key] ELSE default

\* the sequences over S of length at most n
SeqsUpTo(S, n) == UNION {[1..m -> S] : m \in 0..n}

\* no call of the function made yet
NoCall == [op |-> "none"]

Min(S) == CHOOSE m \in S : \A n \in S : m <= n

UpperCase == <<"A","B","C","D","E","F","G","H","I","J","K","L","M",
               "N","O","P","Q","R","S","T","U","V","W","X","Y","Z">>
LowerCase == <<"a","b","c","d","e","f","g","h","i","j","k","l","m",
               "n","o","p","q","r","s","t","u","v","w","x","y","z">>

\* the lower-case letter of every upper-case letter
LowerOf == [c \in {UpperCase[i] : i \in 1..26} |->
               LowerCase[CHOOSE i \in 1..26 : UpperCase[i] = c]]

LowerChar(c) == IF c \in DOMAIN LowerOf THEN LowerOf[c] ELSE c

\* str.lower()
lower(s) == [i \in 1..Len(s) |-> LowerChar(s[i])]

----------------------------------------------------------------------------
(* Setup & Config, tmdb_get *)

BearerMinLen == 40

\* A credential of n characters.  The code reads only whether the key is empty
\* and how long it is, and passes it along as the api_key parameter.
Key(n) == [len |-> n]
ApiKeys == {Key(n) : n \in {0, 40, 41}}

\* bool(TMDB_API_KEY): a credential is configured
HasKey == TMDB_API_KEY.len > 0

\* HEADERS is a dict when the key is set and longer than 40 characters, else None
HEADERS == HasKey /\ TMDB_API_KEY.len > BearerMinLen

\* Behaviours of the service that raise inside tmdb_get once the request is sent:
\* requests.get raises, raise_for_status raises, resp.json() raises.
FailureKinds == {"transport", "status", "badjson"}
Failures == {[kind |-> f] : f \in FailureKinds}
Ok(body) == [kind |-> "ok", body |-> body]

\* tmdb_get(path, params) against a service that behaves as resp.
\* sent counts the HTTP requests issued; request is what was sent.
tmdb_get(path, params, resp) ==
    IF HEADERS
    THEN [raised |-> resp.kind # "ok", sent |-> 1,
          request |-> [path |-> path, params |-> params, auth |-> "bearer"],
          data |-> IF resp.kind = "ok" THEN resp.body ELSE EmptyDict]
    ELSE IF ~HasKey
    THEN [raised |-> TRUE, sent |-> 0, request |-> EmptyDict, data |-> EmptyDict]
    ELSE [raised |-> resp.kind # "ok", sent |-> 1,
          request |-> [path |-> path,
                       params |-> params @@ [api_key |-> TMDB_API_KEY],
                       auth |-> "api_key"],
          data |-> IF resp.kind = "ok" THEN resp.body ELSE EmptyDict]

----------------------------------------------------------------------------
(* functools.lru_cache *)

CacheKeys(cache) == {cache[i].key : i \in 1..Len(cache)}
CacheIndex(cache, key) == CHOOSE i \in 1..Len(cache) : cache[i].key = key
CacheValue(cache, key) == cache[CacheIndex(cache, key)].value

\* a hit moves the entry to the most-recently-used end
CacheTouch(cache, key) ==
    LET i == CacheIndex(cache, key)
    IN  SubSeq(cache, 1, i - 1) \o SubSeq(cache, i + 1, Len(cache)) \o <<cache[i]>>

\* a miss stores the result, evicting the least recently used entry when full
CachePut(cache, maxsize, key, value) ==
    LET e == [key |-> key, value |-> value]
    IN  IF Len(cache) >= maxsize THEN Append(Tail(cache), e) ELSE Append(cache, e)

\* One call of an lru_cache-wrapped function whose body would produce r.
\* A hit returns the stored value and does not run the body; a body that
\* raises stores nothing.
lru_cache(cache, maxsize, key, r) ==
    IF key \in CacheKeys(cache)
    THEN [cache |-> CacheTouch(cache, key), hit |-> TRUE,
          raised |-> FALSE, sent |-> 0, value |-> CacheValue(cache, key)]
    ELSE [cache |-> IF r.raised THEN cache ELSE CachePut(cache, maxsize, key, r.value),
          hit |-> FALSE, raised |-> r.raised, sent |-> r.sent, value |-> r.value]

\* The service's behaviour is drawn only for a call that reaches it: a cache
\* hit and a call without any credential send no request.
Unreached == [kind |-> "unreached"]
Reaches(cache, key) == key \notin CacheKeys(cache) /\ HasKey

----------------------------------------------------------------------------
(* Keyword ID resolution & caching *)

search_keyword_id_maxsize == 2048

Str_drama == <<"d","r","a","m","a">>
Str_Drama == <<"D","r","a","m","a">>
Str_War == <<"W","a","r">>

Keywords == {Str_drama, Str_War}
Str_war == <<"w","a","r">>
CandNames == {Str_Drama, Str_drama, Str_war}
CandIds == {5, 7}

\* candidate objects of a keyword-search response; a key may be missing
Candidates ==
    {[name |-> n, id |-> i] : n \in CandNames, i \in CandIds}
    \cup {[name |-> Str_Drama], [id |-> 5]}

SearchBodies == {[results |-> cs] : cs \in SeqsUpTo(Candidates, MaxCands)} \cup {EmptyDict}
SearchResponses == Failures \cup {Ok(b) : b \in SearchBodies}

\* the body comparing names byte for byte instead of case-insensitively
search_keyword_id_body_case_sensitive(keyword_name, resp) ==
    LET g == tmdb_get("/search/keyword", [query |-> keyword_name], resp)
        results == DictGet(g.data, "results", <<>>)
        matching == {i \in 1..Len(results) :
                        DictGet(results[i], "name", <<>>) = keyword_name}
        chosen == IF matching # {} /\ DOMAIN results[Min(matching)] # {}
                  THEN results[Min(matching)]
                  ELSE results[1]
    IN  IF g.raised THEN [raised |-> TRUE, sent |-> g.sent, value |-> PyNone]
        ELSE IF results = <<>> THEN [raised |-> FALSE, sent |-> g.sent, value |-> PyNone]
        ELSE [raised |-> FALSE, sent |-> g.sent,
              value |-> IF "id" \in DOMAIN chosen THEN PyInt(chosen.id) ELSE PyNone]

\* the body taking the first candidate whatever its name
search_keyword_id_body_first(keyword_name, resp) ==
    LET g == tmdb_get("/search/keyword", [query |-> keyword_name], resp)
        results == DictGet(g.data, "results", <<>>)
    IN  IF g.raised THEN [raised |-> TRUE, sent |-> g.sent, value |-> PyNone]
        ELSE IF results = <<>> THEN [raised |-> FALSE, sent |-> g.sent, value |-> PyNone]
        ELSE [raised |-> FALSE, sent |-> g.sent,
              value |-> IF "id" \in DOMAIN results[1] THEN PyInt(results[1].id) ELSE PyNone]

\* the body of search_keyword_id (lines 75-81) against a service behaving as resp
search_keyword_id_body(keyword_name, resp) ==
    LET g == tmdb_get("/search/keyword", [query |-> keyword_name], resp)
        results == DictGet(g.data, "results", <<>>)
        matching == {i \in 1..Len(results) :
                        lower(DictGet(results[i], "name", <<>>)) = lower(keyword_name)}
        \* exact or results[0]: None and the empty dict are falsy
        chosen == IF matching # {} /\ DOMAIN results[Min(matching)] # {}
                  THEN results[Min(matching)]
                  ELSE results[1]
    IN  IF g.raised THEN [raised |-> TRUE, sent |-> g.sent, value |-> PyNone]
        ELSE IF results = <<>> THEN [raised |-> FALSE, sent |-> g.sent, value |-> PyNone]
        ELSE [raised |-> FALSE, sent |-> g.sent,
              value |-> IF "id" \in DOMAIN chosen THEN PyInt(chosen.id) ELSE PyNone]

\* search_keyword_id without its decorator: every call runs the body
search_keyword_id_undecorated(cache, keyword_name, resp) ==
    LET r == search_keyword_id_body(keyword_name, resp)
    IN  [cache |-> cache, hit |-> FALSE, raised |-> r.raised, sent |-> r.sent,
         value |-> r.value]

\* search_keyword_id as decorated with lru_cache(maxsize=2048)
search_keyword_id(cache, keyword_name, resp) ==
    lru_cache(cache, search_keyword_id_maxsize, keyword_name,
              search_keyword_id_body(keyword_name, resp))

\* A caller invokes search_keyword_id(k); the service, if reached, behaves as resp.
CallSearch(k, resp) ==
    /\ ops < MaxOps
    /\ \E c \in {search_keyword_id(kwCache, k, resp)} :
           /\ kwCache' = c.cache
           /\ kwCalled' = [kwCalled EXCEPT ![k] = @ + 1]
           /\ kwSent' = [kwSent EXCEPT ![k] = @ + c.sent]
           /\ kwFailed' = [kwFailed EXCEPT ![k] = @ + (IF c.raised THEN c.sent ELSE 0)]
           /\ lastSearch' = [op |-> "search_keyword_id", keyword_name |-> k,
                             hit |-> c.hit, raised |-> c.raised, sent |-> c.sent,
                             value |-> c.value,
                             resp |-> resp]
    /\ ops' = ops + 1
    /\ UNCHANGED <<TMDB_API_KEY, discoverVars, providerVars, runVars>>

----------------------------------------------------------------------------
(* Discover movies with keyword logic *)

Digits == <<"0","1","2","3","4","5","6","7","8","9">>

RECURSIVE NatToStr(_)
NatToStr(n) ==
    IF n < 10 THEN <<Digits[n + 1]>>
    ELSE NatToStr(n \div 10) \o <<Digits[(n % 10) + 1]>>

\* str(i) for an int
str(i) == IF i < 0 THEN <<"-">> \o NatToStr(-i) ELSE NatToStr(i)

\* sep.join(parts)
RECURSIVE join(_, _)
join(sep, parts) ==
    IF parts = <<>> THEN <<>>
    ELSE IF Len(parts) = 1 THEN parts[1]
    ELSE parts[1] \o sep \o join(sep, Tail(parts))

KeywordIds == {1, 2, 3, 12}
IdLists == SeqsUpTo(KeywordIds, MaxIds)

\* the filter values the sidebar passes along
Filters ==
    [language : {"de-CH"}, region : {"CH", "US"}, vote_count_gte : {0, 200},
     year_min : {1990}, year_max : {2025}, page : {1},
     sort_by : {"vote_average.desc", "popularity.desc"}]

\* movie objects of a discovery response: vote_average may be missing
MovieIds == {1, 2}
MovieObjs ==
    {[id |-> m, title |-> "T", vote_average |-> 7] : m \in MovieIds}
    \cup {[id |-> 1, title |-> "T"]}
\* a result page lists a movie at most once
ResultPages ==
    {ms \in SeqsUpTo(MovieObjs, Cardinality(MovieIds)) :
        \A a, b \in 1..Len(ms) : a # b => ms[a].id # ms[b].id}
DiscoverBodies ==
    {[results |-> ms, total_results |-> Len(ms)] : ms \in ResultPages} \cup {EmptyDict}
DiscoverResponses == Failures \cup {Ok(b) : b \in DiscoverBodies}

\* the query parameters of lines 117-127
discover_params(kw_param, f) ==
    [with_keywords |-> kw_param,
     include_adult |-> "false",
     language |-> f.language,
     region |-> f.region,
     sort_by |-> f.sort_by,
     page |-> f.page]
    @@ ("vote_count.gte" :> f.vote_count_gte)
    @@ ("primary_release_date.gte" :> str(f.year_min) \o <<"-","0","1","-","0","1">>)
    @@ ("primary_release_date.lte" :> str(f.year_max) \o <<"-","1","2","-","3","1">>)

\* discover_movies with the empty-list guard of lines 108-109 left out
discover_movies_unguarded(keyword_ids, require_all, f, resp) ==
    LET parts == [i \in 1..Len(keyword_ids) |-> str(keyword_ids[i])]
        kw_param == IF require_all THEN join(<<",">>, parts) ELSE join(<<"|">>, parts)
        g == tmdb_get("/discover/movie", discover_params(kw_param, f), resp)
    IN  [raised |-> g.raised, sent |-> g.sent, request |-> g.request, value |-> g.data]

\* discover_movies with the two separators exchanged
discover_movies_swapped(keyword_ids, require_all, f, resp) ==
    IF keyword_ids = <<>>
    THEN [raised |-> FALSE, sent |-> 0, request |-> EmptyDict, value |-> [results |-> <<>>]]
    ELSE
    LET parts == [i \in 1..Len(keyword_ids) |-> str(keyword_ids[i])]
        kw_param == IF require_all THEN join(<<"|">>, parts) ELSE join(<<",">>, parts)
        g == tmdb_get("/discover/movie", discover_params(kw_param, f), resp)
    IN  [raised |-> g.raised, sent |-> g.sent, request |-> g.request, value |-> g.data]

\* discover_movies(keyword_ids, require_all, language, ..., sort_by), the filter
\* arguments bundled in f, against a service behaving as resp
discover_movies(keyword_ids, require_all, f, resp) ==
    IF keyword_ids = <<>>
    THEN [raised |-> FALSE, sent |-> 0, request |-> EmptyDict, value |-> [results |-> <<>>]]
    ELSE
    LET parts == [i \in 1..Len(keyword_ids) |-> str(keyword_ids[i])]
        \* AND = comma separated, OR = pipe separated
        kw_param == IF require_all THEN join(<<",">>, parts) ELSE join(<<"|">>, parts)
        g == tmdb_get("/discover/movie", discover_params(kw_param, f), resp)
    IN  [raised |-> g.raised, sent |-> g.sent, request |-> g.request, value |-> g.data]

\* A caller invokes discover_movies; the service, if reached, behaves as resp.
CallDiscover(ids, require_all, f, resp) ==
    /\ \E c \in {discover_movies(ids, require_all, f, resp)} :
           lastDiscover' = [op |-> "discover_movies", keyword_ids |-> ids,
                            require_all |-> require_all, filter |-> f,
                            raised |-> c.raised, sent |-> c.sent,
                            request |-> c.request, value |-> c.value, resp |-> resp]
    /\ ops' = ops + 1
    /\ UNCHANGED <<TMDB_API_KEY, resolverVars, providerVars, runVars>>

----------------------------------------------------------------------------
(* Watch providers *)

get_watch_providers_maxsize == 1024

\* JSON values of a providers response, tagged by their Python type
JObj(f) == [t |-> "dict", f |-> f]
JArr(a) == [t |-> "list", a |-> a]
JStr(x) == [t |-> "str", x |-> x]
JNull == [t |-> "None"]

\* bool(v)
JTruthy(v) ==
    CASE v.t = "dict" -> DOMAIN v.f # {}
      [] v.t = "list" -> v.a # <<>>
      [] v.t = "str" -> v.x # ""
      [] OTHER -> FALSE

Regions == {"CH", "US"}
ProvNames == {"Netflix", "Apple TV"}
ProvKeys == MovieIds \X Regions

\* the scan order of line 140
CATEGORIES == <<"flatrate", "rent", "buy", "ads", "free">>

Prov(name) == JObj([provider_name |-> JStr(name)])

\* The region entry that lists the (category, name) pairs ps in their order;
\* a category without providers is left out of the entry.
EntryOf(ps) ==
    LET cats == {ps[i][1] : i \in 1..Len(ps)}
        listed(c) == LET T(q) == q[1] = c IN SelectSeq(ps, T)
    IN  JObj([c \in cats |-> JArr([i \in 1..Len(listed(c)) |-> Prov(listed(c)[i][2])])])

CategoryNames == {CATEGORIES[i] : i \in 1..Len(CATEGORIES)}
Entries == {EntryOf(ps) : ps \in SeqsUpTo(CategoryNames \X ProvNames, MaxProvs)}
ExampleEntry ==
    EntryOf(<<<<"flatrate", "Netflix">>, <<"buy", "Netflix">>, <<"buy", "Apple TV">>>>)

Body(results) == JObj([results |-> results])
WellFormedBodies(entries) ==
    {Body(JObj(rk :> e)) : rk \in Regions, e \in entries} \cup {Body(JObj(EmptyDict))}

\* responses the code tolerates although they leave something out
LenientBodies ==
    {JObj(EmptyDict),
     Body(JObj("CH" :> JObj([flatrate |-> JNull, buy |-> JArr(<<Prov("Netflix")>>)]))),
     Body(JObj("CH" :> JObj([flatrate |-> JArr(<<JObj(EmptyDict), Prov("Netflix")>>)]))),
     Body(JObj("CH" :> JObj([flatrate |-> JArr(<<Prov(""), Prov("Netflix")>>)])))}

\* responses of the wrong shape: the body, the results value, the region entry,
\* a category value or a category entry is not what the code calls .get on
MalformedBodies ==
    {JArr(<<>>),
     Body(JArr(<<>>)),
     Body(JNull),
     Body(JObj("CH" :> JArr(<<>>))),
     Body(JObj("CH" :> JObj([flatrate |-> JStr("Netflix")]))),
     Body(JObj("CH" :> JObj([flatrate |-> JArr(<<JStr("Netflix")>>)])))}

ProviderResponses ==
    Failures \cup {Ok(b) : b \in WellFormedBodies(Entries) \cup LenientBodies \cup MalformedBodies}
CoreProviderResponses ==
    Failures \cup {Ok(b) : b \in WellFormedBodies({ExampleEntry}) \cup MalformedBodies}

\* lines 144-149 without the membership test: nothing is deduplicated
Dedup_keep_all(providers) ==
    LET T(q) == q # "" IN SelectSeq(providers, T)

\* deduplicate while preserving order (lines 144-149); None is modelled as ""
RECURSIVE Dedup(_)
Dedup(providers) ==
    IF providers = <<>> THEN <<>>
    ELSE LET front == Dedup(SubSeq(providers, 1, Len(providers) - 1))
             q == providers[Len(providers)]
         IN  IF q # "" /\ q \notin {front[i] : i \in 1..Len(front)}
             THEN Append(front, q) ELSE front

\* entry.get(k, []) or []: the items the inner loop iterates; iterating a
\* truthy value that is no list makes prov.get fail (ok is FALSE)
CategoryItems(entry, k) ==
    LET v == DictGet(entry.f, k, JArr(<<>>))
    IN  IF ~JTruthy(v) THEN [ok |-> TRUE, items |-> <<>>]
        ELSE IF v.t = "list" THEN [ok |-> TRUE, items |-> v.a]
        ELSE [ok |-> FALSE, items |-> <<>>]

\* prov.get("provider_name"), None modelled as ""
ProviderName(prov) ==
    LET v == DictGet(prov.f, "provider_name", JNull)
    IN  IF v.t = "str" THEN v.x ELSE ""

RECURSIVE Concat(_)
Concat(ss) == IF ss = <<>> THEN <<>> ELSE ss[1] \o Concat(Tail(ss))

\* the body of get_watch_providers (lines 133-150) against a service behaving as
\* resp; only tmdb_get is inside the try
get_watch_providers_body(movie_id, watch_region, resp) ==
    LET g == tmdb_get(<<"/movie/", str(movie_id), "/watch/providers">>, EmptyDict, resp)
        data == g.data
        results == DictGet(data.f, "results", JObj(EmptyDict))
        entry == DictGet(results.f, watch_region, JObj(EmptyDict))
        items == [i \in 1..Len(CATEGORIES) |-> CategoryItems(entry, CATEGORIES[i])]
        bad == \/ \E i \in 1..Len(items) : ~items[i].ok
               \/ \E i \in 1..Len(items) :
                      \E j \in 1..Len(items[i].items) : items[i].items[j].t # "dict"
        providers == Concat([i \in 1..Len(items) |->
                                [j \in 1..Len(items[i].items) |->
                                    ProviderName(items[i].items[j])]])
    IN  IF g.raised THEN [raised |-> FALSE, sent |-> g.sent, value |-> <<>>]
        ELSE IF data.t # "dict" \/ results.t # "dict" \/ entry.t # "dict" \/ bad
        THEN [raised |-> TRUE, sent |-> g.sent, value |-> <<>>]
        ELSE [raised |-> FALSE, sent |-> g.sent, value |-> Dedup(providers)]

\* get_watch_providers as decorated with lru_cache(maxsize=1024)
get_watch_providers(cache, movie_id, watch_region, resp) ==
    lru_cache(cache, get_watch_providers_maxsize, <<movie_id, watch_region>>,
              get_watch_providers_body(movie_id, watch_region, resp))

\* the bookkeeping of one call c of get_watch_providers(m, r)
ProviderEffect(m, r, resp, c) ==
    /\ provCache' = c.cache
    /\ provCalled' = [provCalled EXCEPT ![<<m, r>>] = @ + 1]
    /\ provSent' = [provSent EXCEPT ![<<m, r>>] = @ + c.sent]
    /\ provFirst' = IF provCalled[<<m, r>>] = 0
                    THEN [provFirst EXCEPT ![<<m, r>>] =
                             [op |-> "first", raised |-> c.raised, value |-> c.value]]
                    ELSE provFirst
    /\ lastProv' = [op |-> "get_watch_providers", movie_id |-> m, watch_region |-> r,
                    hit |-> c.hit, raised |-> c.raised, sent |-> c.sent,
                    value |-> c.value, resp |-> resp]

\* A caller invokes get_watch_providers(m, watch_region=r).
CallProviders(m, r, resp) ==
    /\ \E c \in {get_watch_providers(provCache, m, r, resp)} : ProviderEffect(m, r, resp, c)
    /\ ops' = ops + 1
    /\ UNCHANGED <<TMDB_API_KEY, resolverVars, discoverVars, runVars>>

----------------------------------------------------------------------------
(* UI: one run of the script, lines 155-273 *)

\* the keyword names the multiselect can return
SelectedLists ==
    {ns \in SeqsUpTo(Keywords, Cardinality(Keywords)) :
        \A a, b \in 1..Len(ns) : a # b => ns[a] # ns[b]}

\* the sidebar's values as the run explores them: the widgets' defaults
RunFilters ==
    {f \in Filters :
        f.region = "CH" /\ f.vote_count_gte = 200 /\ f.sort_by = "vote_average.desc"}

NoFailure == [at |-> "none", kind |-> "none"]

\* the state of a run that has executed the sidebar (lines 155-197) and line 200
NewRun(names, require_all, f, button) ==
    [selected_keyword_names |-> names, require_all |-> require_all, filter |-> f,
     button |-> button,
     key_error |-> (~HasKey),   \* st.error of line 162
     i |-> 1, resolved_ids |-> <<>>,        \* the loop of lines 201-204
     j |-> 1,                               \* the dict comprehension of line 207
     discover |-> NoCall,                   \* the outcome of line 212
     results |-> <<>>, idx |-> 1,           \* lines 223, 233
     subheaders |-> 0, infos |-> 0, errors |-> 0, cards |-> 0, captions |-> 0,
     failure |-> NoFailure,                 \* where an exception was raised, if any
     uncaught |-> FALSE]                    \* an exception left the script

PcAfterDebug(r) == IF r.button THEN "discover" ELSE "done"
PcFromDebug(r, j) == IF j > Len(r.selected_keyword_names) THEN PcAfterDebug(r) ELSE "debug"
PcFromResolve(r, i) == IF i > Len(r.selected_keyword_names) THEN PcFromDebug(r, 1) ELSE "resolve"

\* A user interaction starts a run of the script with the widgets' values.
StartRun(names, require_all, f, button) ==
    /\ pc \in {"idle", "done", "crashed"}
    /\ ops < MaxRuns
    /\ run' = NewRun(names, require_all, f, button)
    /\ pc' = PcFromResolve(run', 1)
    /\ ops' = ops + 1
    /\ UNCHANGED <<TMDB_API_KEY, resolverVars, discoverVars, providerVars>>

\* One iteration of the loop of lines 201-204; nothing encloses it in a try.
ResolveStep(resp) ==
    /\ pc = "resolve"
    /\ LET name == run.selected_keyword_names[run.i]
       IN  \E c \in {search_keyword_id(kwCache, name, resp)} :
               /\ kwCache' = c.cache
               /\ IF c.raised
                  THEN /\ run' = [run EXCEPT !.uncaught = TRUE,
                                             !.failure = [at |-> "resolve", kind |-> resp.kind]]
                       /\ pc' = "crashed"
                  ELSE /\ run' = [run EXCEPT !.i = @ + 1,
                                             !.resolved_ids =
                                                 IF Truthy(c.value) THEN Append(@, c.value.v) ELSE @]
                       /\ pc' = PcFromResolve(run, run.i + 1)
    /\ UNCHANGED <<TMDB_API_KEY, kwCalled, kwSent, kwFailed, lastSearch,
                   discoverVars, providerVars, ops>>

\* One entry of the dict comprehension of line 207, outside any try as well.
DebugStep(resp) ==
    /\ pc = "debug"
    /\ LET name == run.selected_keyword_names[run.j]
       IN  \E c \in {search_keyword_id(kwCache, name, resp)} :
               /\ kwCache' = c.cache
               /\ IF c.raised
                  THEN /\ run' = [run EXCEPT !.uncaught = TRUE,
                                             !.failure = [at |-> "debug", kind |-> resp.kind]]
                       /\ pc' = "crashed"
                  ELSE /\ run' = [run EXCEPT !.j = @ + 1]
                       /\ pc' = PcFromDebug(run, run.j + 1)
    /\ UNCHANGED <<TMDB_API_KEY, kwCalled, kwSent, kwFailed, lastSearch,
                   discoverVars, providerVars, ops>>

\* the button handler without its try/except: the exception leaves the script
DiscoverStep_no_try(resp) ==
    /\ pc = "discover"
    /\ \E c \in {discover_movies(run.resolved_ids, run.require_all, run.filter, resp)} :
           LET results == DictGet(c.value, "results", <<>>)
               called == [op |-> "discover_movies", raised |-> c.raised, sent |-> c.sent,
                          kind |-> resp.kind]
           IN  IF c.raised
               THEN /\ run' = [run EXCEPT !.discover = called, !.uncaught = TRUE,
                                          !.failure = [at |-> "discover", kind |-> resp.kind]]
                    /\ pc' = "crashed"
               ELSE /\ run' = [run EXCEPT !.discover = called, !.results = results,
                                          !.subheaders = @ + 1,
                                          !.infos = IF results = <<>> THEN @ + 1 ELSE @]
                    /\ pc' = IF results = <<>> THEN "done" ELSE "cards"
    /\ UNCHANGED <<TMDB_API_KEY, resolverVars, discoverVars, providerVars, ops>>

\* The button was pressed: lines 211-228, and the except of lines 266-267 when
\* discover_movies raises.
DiscoverStep(resp) ==
    /\ pc = "discover"
    /\ \E c \in {discover_movies(run.resolved_ids, run.require_all, run.filter, resp)} :
           LET results == DictGet(c.value, "results", <<>>)
               called == [op |-> "discover_movies", raised |-> c.raised, sent |-> c.sent,
                          kind |-> resp.kind]
           IN  IF c.raised
               THEN /\ run' = [run EXCEPT !.discover = called, !.errors = @ + 1,
                                          !.failure = [at |-> "discover", kind |-> resp.kind]]
                    /\ pc' = "done"
               ELSE /\ run' = [run EXCEPT !.discover = called, !.results = results,
                                          !.subheaders = @ + 1,
                                          !.infos = IF results = <<>> THEN @ + 1 ELSE @]
                    /\ pc' = IF results = <<>> THEN "done" ELSE "cards"
    /\ UNCHANGED <<TMDB_API_KEY, resolverVars, discoverVars, providerVars, ops>>

\* One result card (lines 239-265).  Formatting a missing vote_average raises, and
\* so may get_watch_providers; the except of lines 266-267 ends the rendering.
CardStep(resp) ==
    /\ pc = "cards"
    /\ LET m == run.results[run.idx]
           region == run.filter.region
       IN  IF "vote_average" \notin DOMAIN m
           THEN /\ run' = [run EXCEPT !.errors = @ + 1,
                                      !.failure = [at |-> "card", kind |-> "format"]]
                /\ pc' = "done"
                /\ UNCHANGED provCache
           ELSE \E c \in {get_watch_providers(provCache, m.id, region, resp)} :
                    /\ provCache' = c.cache
                    /\ IF c.raised
                       THEN /\ run' = [run EXCEPT !.errors = @ + 1,
                                                  !.failure = [at |-> "providers",
                                                               kind |-> resp.kind]]
                            /\ pc' = "done"
                       ELSE /\ run' = [run EXCEPT !.idx = @ + 1, !.cards = @ + 1,
                                                  !.captions =
                                                      IF c.value # <<>> THEN @ + 1 ELSE @]
                            /\ pc' = IF run.idx + 1 > Len(run.results) THEN "done" ELSE "cards"
    /\ UNCHANGED <<TMDB_API_KEY, resolverVars, discoverVars,
                   provCalled, provSent, provFirst, lastProv, ops>>

Init ==
    /\ TMDB_API_KEY \in ApiKeys
    /\ kwCache = <<>>
    /\ kwCalled = [k \in Keywords |-> 0]
    /\ kwSent = [k \in Keywords |-> 0]
    /\ kwFailed = [k \in Keywords |-> 0]
    /\ lastSearch = NoCall
    /\ lastDiscover = NoCall
    /\ provCache = <<>>
    /\ provCalled = [key \in ProvKeys |-> 0]
    /\ provSent = [key \in ProvKeys |-> 0]
    /\ provFirst = [key \in ProvKeys |-> NoCall]
    /\ lastProv = NoCall
    /\ pc = "idle"
    /\ run = NewRun(<<>>, TRUE, CHOOSE f \in RunFilters : TRUE, FALSE)
    /\ ops = 0

NextResolver ==
    \E k \in Keywords :
        \E resp \in IF Reaches(kwCache, k) THEN SearchResponses ELSE {Unreached} :
            CallSearch(k, resp)

SpecResolver == Init /\ [][NextResolver]_vars

\* discover_movies keeps no state: one call per behaviour covers it
NextDiscover ==
    /\ ops = 0
    /\ \E ids \in IdLists, require_all \in BOOLEAN, f \in Filters :
         \E resp \in IF ids # <<>> /\ HasKey
                      THEN DiscoverResponses ELSE {Unreached} :
             CallDiscover(ids, require_all, f, resp)

SpecDiscover == Init /\ [][NextDiscover]_vars

\* one call from the empty cache, over every response of the bounded set
NextProviderBody ==
    /\ ops = 0
    /\ \E m \in MovieIds, r \in Regions :
         \E resp \in IF Reaches(provCache, <<m, r>>) THEN ProviderResponses ELSE {Unreached} :
             CallProviders(m, r, resp)

SpecProviderBody == Init /\ [][NextProviderBody]_vars

\* sequences of calls through the cache
NextProviders ==
    /\ ops < MaxOps
    /\ \E m \in MovieIds, r \in Regions :
         \E resp \in IF Reaches(provCache, <<m, r>>) THEN CoreProviderResponses ELSE {Unreached} :
             CallProviders(m, r, resp)

SpecProviders == Init /\ [][NextProviders]_vars

NextRun ==
    \/ \E names \in SelectedLists, require_all \in BOOLEAN, f \in RunFilters,
          button \in BOOLEAN : StartRun(names, require_all, f, button)
    \/ /\ pc = "resolve"
       /\ \E resp \in IF Reaches(kwCache, run.selected_keyword_names[run.i])
                      THEN SearchResponses ELSE {Unreached} : ResolveStep(resp)
    \/ /\ pc = "debug"
       /\ \E resp \in IF Reaches(kwCache, run.selected_keyword_names[run.j])
                      THEN SearchResponses ELSE {Unreached} : DebugStep(resp)
    \/ /\ pc = "discover"
       /\ \E resp \in IF run.resolved_ids # <<>> /\ HasKey
                      THEN DiscoverResponses ELSE {Unreached} : DiscoverStep(resp)
    \/ /\ pc = "cards"
       /\ \E resp \in IF Reaches(provCache, <<run.results[run.idx].id, run.filter.region>>)
                         /\ "vote_average" \in DOMAIN run.results[run.idx]
                      THEN CoreProviderResponses ELSE {Unreached} : CardStep(resp)

SpecRun == Init /\ [][NextRun]_vars

----------------------------------------------------------------------------
(* Properties of the keyword resolver, checked under SpecResolver *)

Searched == lastSearch.op = "search_keyword_id"

\* C1 as stated: for every keyword string and every behaviour of the service,
\* two calls of search_keyword_id with the same string issue at most one
\* request in total.
C1_TwoCallsOneRequest ==
    \A k \in Keywords : kwCalled[k] = 2 => kwSent[k] <= 1

\* C1 as amended: a request that ends in an exception stores nothing, so each
\* failed request may be followed by another one; the requests for a keyword
\* number at most one more than those that failed, a keyword is in the cache
\* exactly when one of its requests did not fail, and a cache hit sends nothing.
C1_OneRequestOnceResolved ==
    /\ \A k \in Keywords :
          /\ kwSent[k] <= kwFailed[k] + 1
          /\ k \in CacheKeys(kwCache) <=> kwSent[k] = kwFailed[k] + 1
          /\ kwCalled[k] = 2 /\ kwFailed[k] = 0 => kwSent[k] <= 1
    /\ Searched /\ lastSearch.hit => lastSearch.sent = 0 /\ ~lastSearch.raised

\* two calls with the same string, the first answered, the second a cache hit
C1_Witness ==
    /\ Searched
    /\ lastSearch.hit
    /\ kwCalled[lastSearch.keyword_name] = 2
    /\ kwSent[lastSearch.keyword_name] = 1
    /\ kwFailed[lastSearch.keyword_name] = 0

DramaResponse ==
    Ok([results |-> <<[name |-> Str_Drama, id |-> 5], [name |-> Str_drama, id |-> 7]>>])

AskedDrama ==
    /\ Searched
    /\ lastSearch.keyword_name = Str_drama
    /\ lastSearch.resp = DramaResponse

\* C2 as stated: with the candidates {name: "Drama", id: 5}, {name: "drama", id: 7}
\* in this order, search_keyword_id("drama") returns 7.
C2_DramaReturns7 ==
    AskedDrama => ~lastSearch.raised /\ lastSearch.value = PyInt(7)

\* C2 as amended: both names equal "drama" case-insensitively and the first of
\* them in response order is taken, so search_keyword_id("drama") returns 5.
C2_DramaReturns5 ==
    AskedDrama => ~lastSearch.raised /\ lastSearch.value = PyInt(5)

\* the call of C2 was made and answered by the service
C2_Witness ==
    AskedDrama /\ ~lastSearch.hit /\ lastSearch.sent = 1

EqualsIgnoreCase(a, b) == lower(a) = lower(b)

\* every candidate carries a name and an id, as the keyword-search endpoint returns them
WellFormedCands(cs) == \A i \in 1..Len(cs) : DOMAIN cs[i] = {"name", "id"}

\* C3: for every keyword and every candidate list the service returns,
\* search_keyword_id returns the id of a candidate whose name equals the keyword
\* case-insensitively when there is one, otherwise the id of the first
\* candidate, and None without raising when the list is empty.
C3_SelectionPolicy ==
    Searched /\ lastSearch.resp.kind = "ok" =>
        LET cs == DictGet(lastSearch.resp.body, "results", <<>>)
            k == lastSearch.keyword_name
            matches == {i \in 1..Len(cs) : EqualsIgnoreCase(cs[i].name, k)}
        IN  WellFormedCands(cs) =>
                /\ ~lastSearch.raised
                /\ IF cs = <<>> THEN lastSearch.value = PyNone
                   ELSE IF matches # {}
                   THEN lastSearch.value \in {PyInt(cs[i].id) : i \in matches}
                   ELSE lastSearch.value = PyInt(cs[1].id)

\* a match that differs from the keyword in case, found behind a candidate that
\* does not match, and preferred to it
C3_Witness ==
    /\ Searched
    /\ lastSearch.resp.kind = "ok"
    /\ LET cs == DictGet(lastSearch.resp.body, "results", <<>>)
           k == lastSearch.keyword_name
       IN  /\ Len(cs) = 2
           /\ WellFormedCands(cs)
           /\ ~EqualsIgnoreCase(cs[1].name, k)
           /\ EqualsIgnoreCase(cs[2].name, k)
           /\ cs[2].name # k
           /\ cs[1].id # cs[2].id
           /\ lastSearch.value = PyInt(cs[2].id)

----------------------------------------------------------------------------
(* Properties of discover_movies, checked under SpecDiscover *)

Discovered == lastDiscover.op = "discover_movies"

\* C4: discover_movies with an empty identifier list returns the empty result
\* set and sends no request, in either mode, for any filter, with or without a
\* credential.
C4_EmptyIdsNoCall ==
    Discovered /\ lastDiscover.keyword_ids = <<>> =>
        /\ ~lastDiscover.raised
        /\ lastDiscover.sent = 0
        /\ lastDiscover.value = [results |-> <<>>]

\* the empty list in ANY mode without a credential
C4_Witness ==
    /\ Discovered
    /\ lastDiscover.keyword_ids = <<>>
    /\ ~lastDiscover.require_all
    /\ ~HasKey
    /\ lastDiscover.sent = 0

\* the pieces of s between the occurrences of the character c
RECURSIVE SplitOn(_, _)
SplitOn(s, c) ==
    IF \A i \in 1..Len(s) : s[i] # c THEN <<s>>
    ELSE LET i == Min({n \in 1..Len(s) : s[n] = c})
         IN  <<SubSeq(s, 1, i - 1)>> \o SplitOn(SubSeq(s, i + 1, Len(s)), c)

IsNumeral(s) == s # <<>> /\ \A i \in 1..Len(s) : \E d \in 1..10 : Digits[d] = s[i]

RECURSIVE NumeralValue(_)
NumeralValue(s) ==
    IF s = <<>> THEN 0
    ELSE 10 * NumeralValue(SubSeq(s, 1, Len(s) - 1))
         + (CHOOSE d \in 1..10 : Digits[d] = s[Len(s)]) - 1

\* the request d sent is one discovery call whose with_keywords reads back as
\* the identifiers in input order, separated by "," (ALL) or "|" (ANY)
DiscoveryRequestOf(d) ==
    /\ d.sent = 1
    /\ d.request.path = "/discover/movie"
    /\ d.request.params.include_adult = "false"
    /\ LET pieces == SplitOn(d.request.params.with_keywords,
                             IF d.require_all THEN "," ELSE "|")
       IN  /\ Len(pieces) = Len(d.keyword_ids)
           /\ \A i \in 1..Len(pieces) :
                 IsNumeral(pieces[i]) /\ NumeralValue(pieces[i]) = d.keyword_ids[i]
    /\ d.keyword_ids = <<1, 2, 3>> =>
           d.request.params.with_keywords =
               IF d.require_all THEN <<"1", ",", "2", ",", "3">>
               ELSE <<"1", "|", "2", "|", "3">>

\* C5 as stated: for every non-empty identifier list discover_movies issues
\* exactly one discovery call, with_keywords being the identifiers joined by ","
\* in ALL mode and by "|" in ANY mode and include_adult being "false".
C5_ExactlyOneCall ==
    Discovered /\ lastDiscover.keyword_ids # <<>> => DiscoveryRequestOf(lastDiscover)

\* C5 as amended: the call is issued when a credential is configured; without
\* one tmdb_get raises before any request and no call is issued.
C5_OneCallWhenCredential ==
    Discovered /\ lastDiscover.keyword_ids # <<>> =>
        IF HasKey
        THEN DiscoveryRequestOf(lastDiscover)
        ELSE lastDiscover.sent = 0 /\ lastDiscover.raised

\* [1, 2, 3] in ANY mode sent as "1|2|3"
C5_Witness ==
    /\ Discovered
    /\ lastDiscover.keyword_ids = <<1, 2, 3>>
    /\ ~lastDiscover.require_all
    /\ lastDiscover.sent = 1
    /\ lastDiscover.request.params.with_keywords = <<"1", "|", "2", "|", "3">>

----------------------------------------------------------------------------
(* Properties of get_watch_providers, checked under SpecProviderBody (C6) and
   SpecProviders (C7, C10) *)

Looked == lastProv.op = "get_watch_providers"

ScanOrder == <<"flatrate", "rent", "buy", "ads", "free">>

\* the places <<category index, index in the category's list>> of a region entry
Places(entry) ==
    {<<ci, j>> \in (1..Len(ScanOrder)) \X (1..MaxProvs) :
        /\ ScanOrder[ci] \in DOMAIN entry
        /\ j <= Len(entry[ScanOrder[ci]].a)}
NameAt(entry, pl) == entry[ScanOrder[pl[1]]].a[pl[2]].f.provider_name.x
Before(p, q) == p[1] < q[1] \/ (p[1] = q[1] /\ p[2] < q[2])
\* the first place of a name in scan order
FirstPlace(entry, name) ==
    CHOOSE p \in Places(entry) :
        /\ NameAt(entry, p) = name
        /\ \A q \in Places(entry) : NameAt(entry, q) = name => (q = p \/ Before(p, q))

\* C6: for a well-formed response get_watch_providers returns the provider
\* names of the entry of the region, each once, ordered by their first
\* occurrence in the scan flatrate, rent, buy, ads, free; and the empty list
\* when the response has no entry for the region.
C6_FlattenDedup ==
    Looked /\ lastProv.resp.kind = "ok" /\ lastProv.resp.body \in WellFormedBodies(Entries) =>
        LET results == lastProv.resp.body.f.results.f
            out == lastProv.value
        IN  /\ ~lastProv.raised
            /\ IF lastProv.watch_region \notin DOMAIN results THEN out = <<>>
               ELSE LET entry == results[lastProv.watch_region].f
                    IN  /\ {out[i] : i \in 1..Len(out)}
                               = {NameAt(entry, p) : p \in Places(entry)}
                        /\ \A a, b \in 1..Len(out) :
                               a < b => /\ out[a] # out[b]
                                        /\ Before(FirstPlace(entry, out[a]),
                                                  FirstPlace(entry, out[b]))

\* flatrate: Netflix; buy: Netflix, Apple TV gives Netflix, Apple TV
C6_Witness ==
    /\ Looked
    /\ lastProv.watch_region = "CH"
    /\ lastProv.resp = Ok(Body(JObj("CH" :> ExampleEntry)))
    /\ lastProv.value = <<"Netflix", "Apple TV">>

\* C7: get_watch_providers never raises; a transport error, a non-success
\* status, a missing credential or a malformed response yields the empty list.
C7_NeverRaises ==
    Looked =>
        /\ ~lastProv.raised
        /\ (lastProv.resp.kind \in FailureKinds
            \/ (lastProv.resp.kind = "ok" /\ lastProv.resp.body \in MalformedBodies))
           => lastProv.value = <<>>

\* C10: per (movie_id, region) pair the providers endpoint is contacted at most
\* once, and every later call returns the list the first call returned,
\* the empty list of a failed first call included.
C10_MemoizedPerPair ==
    /\ \A key \in ProvKeys : provSent[key] <= 1
    /\ Looked =>
          LET first == provFirst[<<lastProv.movie_id, lastProv.watch_region>>]
          IN  ~first.raised => ~lastProv.raised /\ lastProv.value = first.value

----------------------------------------------------------------------------
(* Properties of the script run, checked under SpecRun *)

\* C8: a failure of the service during discover_movies with a non-empty
\* identifier list reaches the button handler as an exception, no result set
\* is returned, and the handler shows exactly one error message and renders no
\* result card.
C8_DiscoverFailureShownOnce ==
    run.discover.op = "discover_movies" /\ run.discover.kind \in FailureKinds =>
        /\ run.resolved_ids # <<>>
        /\ run.discover.raised
        /\ run.results = <<>>
        /\ pc = "done"
        /\ run.errors = 1
        /\ run.cards = 0 /\ run.subheaders = 0 /\ run.infos = 0
        /\ ~run.uncaught

\* a transport failure of the discovery call, shown as one error
C8_Witness ==
    /\ pc = "done"
    /\ run.discover.op = "discover_movies"
    /\ run.discover.kind = "transport"
    /\ run.discover.sent = 1
    /\ run.errors = 1

\* C9: in every script run a failure of the service during keyword resolution
\* is shown as a single error message and never leaves the run as an uncaught
\* exception.
C9_ResolutionFailureShown ==
    run.failure.at \in {"resolve", "debug"} /\ run.failure.kind \in {"transport", "status"} =>
        /\ run.errors = 1
        /\ ~run.uncaught
        /\ pc # "crashed"

====
